---- MODULE Spec2Model ----
(***************************************************************************)
(* WTF::ContinuousArenaMalloc (Source/WTF/wtf/ContinuousArenaMalloc.cpp).  *)
(*                                                                         *)
(* One reserved address window [s_Start, s_End), a bump cursor s_Current,  *)
(* a process-wide mutex, and the extent hooks jemalloc calls from any      *)
(* thread: extentAlloc, extentDestroy, extentPurgeLazy, extentPurgeForced. *)
(*                                                                         *)
(* Addresses are AddrBits wide and all pointer / size_t arithmetic wraps   *)
(* modulo 2^AddrBits.  One address unit stands for one page.  Every        *)
(* ASSERT of the source is fatal: it sets `aborted` and the process stops. *)
(***************************************************************************)
EXTENDS Integers, FiniteSets, Sequences, TLC

\* ------------------------------------------------------------------ bounds
LgAreaSize == 2            \* log2 of the reserved window, in pages
NumThreads == 2            \* threads that enter the hooks
MantissaWidth == 1         \* exactly representable length bits (capability mode)

\* --------------------------------------------------------------- constants
AddrBits == LgAreaSize + 2
Mod == 2 ^ AddrBits
Addr == 0 .. (Mod - 1)
k_AreaSize == 2 ^ LgAreaSize
NULL == 0
NoThread == 0
Threads == 1 .. NumThreads
MainThread == 1

VARIABLES
    initPc,         \* position of initialize(): "start","mutex","reserved","hooks","mallctl","done"
    capMode,        \* TRUE iff built with __CHERI_PURE_CAPABILITY__
    s_Initialized,
    s_Mutex,        \* [created: BOOLEAN, owner: NoThread or a thread]
    s_Start, s_End, s_Current,
    s_extentHooks,  \* the set of hooks bound in the hook table
    prot,           \* page state of every address: "none", "guard" or "rw"
    pc,             \* per thread: "idle","wait","body","mmap","advance","unlock"
    call,           \* per thread: the hook invoked and its arguments
    loc,            \* per thread: locals and out-parameters of the running hook
    returned,       \* the <<addr, size>> of every successful extentAlloc, in order
    entry,          \* per thread: a record of the invocation holding or last holding the mutex
    aborted         \* TRUE once an ASSERT has failed

vars == <<initPc, capMode, s_Initialized, s_Mutex, s_Start, s_End, s_Current,
          s_extentHooks, prot, pc, call, loc, returned, entry, aborted>>

\* ------------------------------------------------------- integer helpers
RECURSIVE BitAnd(_, _)
BitAnd(a, b) ==
    IF a = 0 \/ b = 0 THEN 0
    ELSE (IF a % 2 = 1 /\ b % 2 = 1 THEN 1 ELSE 0) + 2 * BitAnd(a \div 2, b \div 2)

Neg(a) == (Mod - a) % Mod

BitNot(a) == (Mod - 1) - a

RECURSIVE PopCount(_)
PopCount(a) == IF a = 0 THEN 0 ELSE (a % 2) + PopCount(a \div 2)

hasOneBitSet(a) == PopCount(a) = 1

hasZeroOrOneBitsSet(a) == PopCount(a) <= 1

RoundUp(n, a) == ((n + a - 1) \div a) * a

AlignUp_NextBoundary(p, a) == (((p \div a) + 1) * a) % Mod

\* __builtin_align_up on a pointer: (p + a - 1) & -a, wrapping at the address width
AlignUp(p, a) == RoundUp(p, a) % Mod

\* -------------------------------------------- capability representability
\* Exponent of the compressed bounds encoding: the least e such that the
\* length rounded up to 2^e fits MantissaWidth bits above bit e.
ReprExponent(len) ==
    CHOOSE e \in 0 .. AddrBits :
        /\ RoundUp(len, 2 ^ e) < 2 ^ (e + MantissaWidth)
        /\ \A f \in 0 .. (e - 1) : ~(RoundUp(len, 2 ^ f) < 2 ^ (f + MantissaWidth))

cheri_representable_alignment_mask(len) == Neg(2 ^ ReprExponent(len))

cheri_representable_length(len) == RoundUp(len, 2 ^ ReprExponent(len)) % Mod

\* ------------------------------------------------------- range validation
\* The ASSERTs at the head of isValidRange.
ValidRangeAsserts(t) ==
    /\ s_Mutex.owner # NoThread
    /\ s_Start # NULL
    /\ s_Current >= s_Start
    /\ s_End >= s_Current

isValidRange_NoEndBound(addr, size) ==
    LET start == addr
        end == (start + size) % Mod
    IN  IF end < start THEN FALSE
        ELSE /\ start >= s_Start
             /\ start <= s_End
             /\ end >= s_Start

isValidRange_NoWrapCheck(addr, size) ==
    LET start == addr
        end == (start + size) % Mod
    IN  /\ start >= s_Start
        /\ start <= s_End
        /\ end >= s_Start
        /\ end <= s_End

isValidRange(addr, size) ==
    LET start == addr
        end == (start + size) % Mod
    IN  IF end < start THEN FALSE
        ELSE /\ start >= s_Start
             /\ start <= s_End
             /\ end >= s_Start
             /\ end <= s_End

isAllocatedRange_WindowOnly(addr, size) == isValidRange(addr, size)

isAllocatedRange_Strict(addr, size) ==
    isValidRange(addr, size) /\ (addr + size < s_Current)

isAllocatedRange(addr, size) ==
    isValidRange(addr, size) /\ (addr + size <= s_Current)

isAvailableRange_ByEnd(addr, size) ==
    isValidRange(addr, size) /\ (addr + size >= s_Current)

isAvailableRange_NoWindow(addr, size) == addr >= s_Current

isAvailableRange(addr, size) ==
    isValidRange(addr, size) /\ (addr >= s_Current)

\* ------------------------------------------------------------------- mmap
\* The addresses of [addr, addr + len), wrapping at the address width.
Range(addr, len) == { (addr + i) % Mod : i \in 0 .. (len - 1) }

\* mmap(2) with MAP_FIXED: a zero length is EINVAL; otherwise the kernel
\* either installs the mapping or refuses (ENOMEM).
MmapOutcomes(len) == IF len = 0 THEN {FALSE} ELSE {TRUE, FALSE}

Remap_OneMore(addr, len, state) ==
    [a \in Addr |-> IF a \in Range(addr, len + 1) THEN state ELSE prot[a]]

Remap(addr, len, state) ==
    [a \in Addr |-> IF a \in Range(addr, len) THEN state ELSE prot[a]]

\* ----------------------------------------------------------------- state
NoCall == [op |-> "none", addr |-> 0, size |-> 0, alignment |-> 0,
           offset |-> 0, length |-> 0, zero |-> FALSE, commit |-> FALSE]

NoLoc == [start |-> 0, size |-> 0, alignment |-> 0, ret |-> 0,
          zero |-> FALSE, commit |-> FALSE]

NoEntry == [cur |-> 0, peers |-> {}, size |-> 0, alignment |-> 0, result |-> "none"]

\* Window bases mmap can return for MAP_ALIGNED(k_LgAreaSize): aligned to the
\* window size, not NULL, and ending below the top of the address space.
Bases == { b \in Addr : b # NULL /\ b % k_AreaSize = 0 /\ b + k_AreaSize < Mod }

Init ==
    /\ initPc = "start"
    /\ capMode \in BOOLEAN
    /\ s_Initialized = FALSE
    /\ s_Mutex = [created |-> FALSE, owner |-> NoThread]
    /\ s_Start = NULL
    /\ s_End = NULL
    /\ s_Current = NULL
    /\ s_extentHooks = {}
    /\ prot = [a \in Addr |-> "none"]
    /\ pc = [t \in Threads |-> "idle"]
    /\ call = [t \in Threads |-> NoCall]
    /\ loc = [t \in Threads |-> NoLoc]
    /\ returned = <<>>
    /\ entry = [t \in Threads |-> NoEntry]
    /\ aborted = FALSE

Abort ==
    /\ aborted' = TRUE
    /\ UNCHANGED <<initPc, capMode, s_Initialized, s_Mutex, s_Start, s_End,
                   s_Current, s_extentHooks, prot, pc, call, loc, returned, entry>>

\* ------------------------------------------------------------ initialize
\* An initialize() that registers the hook table right after creating the
\* mutex, before the window is reserved.
InitMutex_HooksFirst ==
    /\ ~aborted
    /\ initPc = "start"
    /\ s_Mutex' = [created |-> TRUE, owner |-> NoThread]
    /\ s_extentHooks' = {"alloc", "destroy", "purge_lazy", "purge_forced"}
    /\ initPc' = "mallctl"
    /\ UNCHANGED <<capMode, s_Initialized, s_Start, s_End, s_Current,
                   prot, pc, call, loc, returned, entry, aborted>>

\* s_Mutex = new Mutex()
InitMutex ==
    /\ ~aborted
    /\ initPc = "start"
    /\ IF s_Initialized \/ s_Mutex.created
       THEN Abort
       ELSE /\ s_Mutex' = [created |-> TRUE, owner |-> NoThread]
            /\ initPc' = "mutex"
            /\ UNCHANGED <<capMode, s_Initialized, s_Start, s_End, s_Current,
                           s_extentHooks, prot, pc, call, loc, returned, entry, aborted>>

\* mmap(NULL, k_AreaSize, PROT_NONE, MAP_GUARD | MAP_ALIGNED) and the three
\* assignments that follow it
InitReserve ==
    /\ ~aborted
    /\ initPc = "mutex"
    /\ \/ \E area_start \in Bases :
            /\ prot' = [a \in Addr |->
                          IF a \in Range(area_start, k_AreaSize) THEN "guard" ELSE prot[a]]
            /\ s_Start' = area_start
            /\ s_End' = area_start + k_AreaSize
            /\ s_Current' = area_start
            /\ initPc' = "reserved"
            /\ UNCHANGED <<capMode, s_Initialized, s_Mutex, s_extentHooks,
                           pc, call, loc, returned, entry, aborted>>
       \/ Abort     \* area_start == MAP_FAILED

\* s_extentHooks.alloc = extentAlloc; ... the opted-out entries stay NULL
InitHooks ==
    /\ ~aborted
    /\ initPc = "reserved"
    /\ s_extentHooks' = {"alloc", "destroy", "purge_lazy", "purge_forced"}
    /\ initPc' = "mallctl"
    /\ UNCHANGED <<capMode, s_Initialized, s_Mutex, s_Start, s_End, s_Current,
                   prot, pc, call, loc, returned, entry, aborted>>

\* mallctl("arenas.create") returns; s_Initialized = true
InitRegistered ==
    /\ ~aborted
    /\ initPc = "mallctl"
    /\ pc[MainThread] = "idle"
    /\ \/ /\ s_Initialized' = TRUE
          /\ initPc' = "done"
          /\ UNCHANGED <<capMode, s_Mutex, s_Start, s_End, s_Current, s_extentHooks,
                         prot, pc, call, loc, returned, entry, aborted>>
       \/ Abort     \* mallctlRet != 0

\* initialize() is called once more, by the main thread between two hook
\* invocations: ASSERT(!s_Initialized); ASSERT(s_Mutex == NULL)
InitializeAgain ==
    /\ ~aborted
    /\ initPc = "done"
    /\ pc[MainThread] = "idle"
    /\ s_Mutex.owner = NoThread
    /\ IF s_Initialized \/ s_Mutex.created
       THEN Abort
       ELSE /\ initPc' = "start"
            /\ UNCHANGED <<capMode, s_Initialized, s_Mutex, s_Start, s_End, s_Current,
                           s_extentHooks, prot, pc, call, loc, returned, entry, aborted>>

\* ------------------------------------------------------- hook invocation
\* jemalloc calls the hooks of the table it was handed: from the registering
\* thread while arenas.create runs, from any thread once the arena exists.
MayInvoke(t) ==
    \/ s_Initialized
    \/ initPc = "mallctl" /\ t = MainThread

InCall(t) == pc[t] # "idle"

\* The host allocator, on thread t, calls into a hook.  Every hook starts with
\* MutexLocker, so the thread is now queued on s_Mutex.
Invoke(t) ==
    /\ ~aborted
    /\ pc[t] = "idle"
    /\ s_extentHooks # {}
    /\ MayInvoke(t)
    /\ pc' = [pc EXCEPT ![t] = "wait"]
    /\ entry' = [entry EXCEPT ![t] = NoEntry]
    /\ UNCHANGED <<initPc, capMode, s_Initialized, s_Mutex, s_Start, s_End,
                   s_Current, s_extentHooks, prot, call, loc, returned, aborted>>

\* Argument values the host allocator is modelled to pass.
Sizes == (0 .. k_AreaSize) \cup {Mod - 1}

Alignments == { 2 ^ k : k \in 0 .. (AddrBits - 1) }

Window == s_Start .. (s_End - 1)

\* extentAlloc requests: no fixed address, or the one fixed address that the
\* bump allocation would pick by itself.
Requests ==
    { r \in Addr \X Sizes \X Alignments :
        r[1] = NULL \/ r[1] = AlignUp(s_Current, r[3]) }

\* *zero and *commit as the caller set them before the call
Flags == { <<FALSE, FALSE>>, <<TRUE, TRUE>> }

AllocArgs ==
    { [op |-> "alloc", addr |-> r[1], size |-> r[2], alignment |-> r[3],
       offset |-> 0, length |-> 0, zero |-> f[1], commit |-> f[2]] :
        r \in Requests, f \in Flags }

\* Extents handed back to destroy and purge.  With split and merge opted out
\* the host allocator passes the extents extentAlloc produced.
Produced == { returned[i] : i \in 1 .. Len(returned) }

\* Other ranges a caller can pass: the whole handed-out part [s_Start, s_Current),
\* an extent that lies beyond the cursor, one that starts below the window, one
\* whose end wraps.
Foreign ==
    { <<s_Start, s_Current - s_Start>>, <<s_Current, 1>>,
      <<s_Start - 1, 1>>, <<s_Start, Mod - 1>> }

\* Portions of an extent of the given size: from its first or second page, of
\* no, one or all remaining pages, or of one page more than remain; and one
\* portion whose offset + length wraps.
Portions(size) ==
    { <<offset, length>> \in (0 .. 1) \X Sizes :
        \/ length \in {0, 1, size - offset, size - offset + 1}
        \/ offset = 1 /\ length = Mod - 1 }

DestroyArgs ==
    { [op |-> "destroy", addr |-> e[1], size |-> e[2], alignment |-> 0,
       offset |-> 0, length |-> 0, zero |-> FALSE, commit |-> FALSE] :
        e \in Produced \cup Foreign }

\* Purges: any portion of a produced extent, the whole of any other range.
PurgeArgs(hook) ==
    { [op |-> hook, addr |-> x[1][1], size |-> x[1][2], alignment |-> 0,
       offset |-> x[2][1], length |-> x[2][2], zero |-> FALSE, commit |-> FALSE] :
        x \in { y \in (Produced \cup Foreign) \X ((0 .. 1) \X Sizes) :
                  IF y[1] \in Produced THEN y[2] \in Portions(y[1][2])
                  ELSE y[2] = <<0, y[1][2]>> } }

CanLock_NoExclusion(t, hook) ==
    /\ ~aborted
    /\ pc[t] = "wait"
    /\ hook \in s_extentHooks
    /\ s_Mutex.created

\* MutexLocker locker(s_Mutex): blocks while another thread owns the mutex.
CanLock(t, hook) ==
    /\ ~aborted
    /\ pc[t] = "wait"
    /\ hook \in s_extentHooks
    /\ s_Mutex.created
    /\ s_Mutex.owner = NoThread

\* MutexLocker returns and the hook body starts with the arguments `a` of this
\* invocation.
Lock(t, a) ==
    /\ s_Mutex' = [s_Mutex EXCEPT !.owner = t]
    /\ pc' = [pc EXCEPT ![t] = "body"]
    /\ call' = [call EXCEPT ![t] = a]
    /\ loc' = [loc EXCEPT ![t] =
                 [start |-> 0, size |-> a.size, alignment |-> a.alignment,
                  ret |-> NULL, zero |-> a.zero, commit |-> a.commit]]
    /\ entry' = [entry EXCEPT ![t] =
                   [NoEntry EXCEPT !.cur = s_Current,
                                   !.peers = { u \in Threads \ {t} : pc[u] = "wait" },
                                   !.result = "running"]]
    /\ UNCHANGED <<initPc, capMode, s_Initialized, s_Start, s_End, s_Current,
                   s_extentHooks, prot, returned, aborted>>

\* arenas.create itself asks for extents, so extentAlloc already runs while
\* initialize() is inside mallctl; the other hooks serve an arena in use.
LockAlloc(t) ==
    /\ CanLock(t, "alloc")
    /\ \E a \in AllocArgs : Lock(t, a)

LockDestroy(t) ==
    /\ CanLock(t, "destroy")
    /\ s_Initialized
    /\ \E a \in DestroyArgs : Lock(t, a)

LockPurgeLazy(t) ==
    /\ CanLock(t, "purge_lazy")
    /\ s_Initialized
    /\ \E a \in PurgeArgs("purge_lazy") : Lock(t, a)

LockPurgeForced(t) ==
    /\ CanLock(t, "purge_forced")
    /\ s_Initialized
    /\ \E a \in PurgeArgs("purge_forced") : Lock(t, a)

\* What the record keeps of a finished invocation while the invocations that
\* were blocked behind it are served: an extentAlloc that asked for exactly the
\* space left behind an already aligned cursor, and how it ended.
Outcome(t) ==
    IF /\ call[t].op = "alloc"
       /\ call[t].addr = NULL
       /\ call[t].size > 0
       /\ entry[t].cur % call[t].alignment = 0
       /\ s_End - entry[t].cur = call[t].size
       /\ entry[t].peers # {}
    THEN [entry[t] EXCEPT !.size = call[t].size, !.alignment = call[t].alignment,
                          !.result = IF loc[t].ret # NULL THEN "ok"
                                     ELSE IF loc[t].start # NULL THEN "map_failed"
                                     ELSE "no_space"]
    ELSE NoEntry

\* A return that leaves the mutex locked.
Unlock_KeepsMutex(t) ==
    /\ ~aborted
    /\ pc[t] = "unlock"
    /\ pc' = [pc EXCEPT ![t] = "idle"]
    /\ call' = [call EXCEPT ![t] = NoCall]
    /\ loc' = [loc EXCEPT ![t] = NoLoc]
    /\ entry' = [u \in Threads |-> IF u = t THEN Outcome(t) ELSE NoEntry]
    /\ UNCHANGED <<initPc, capMode, s_Initialized, s_Mutex, s_Start, s_End, s_Current,
                   s_extentHooks, prot, returned, aborted>>

\* return ret; ~MutexLocker
Unlock(t) ==
    /\ ~aborted
    /\ pc[t] = "unlock"
    /\ s_Mutex' = [s_Mutex EXCEPT !.owner = NoThread]
    /\ pc' = [pc EXCEPT ![t] = "idle"]
    /\ call' = [call EXCEPT ![t] = NoCall]
    /\ loc' = [loc EXCEPT ![t] = NoLoc]
    /\ entry' = [u \in Threads |-> IF u = t THEN Outcome(t) ELSE NoEntry]
    /\ UNCHANGED <<initPc, capMode, s_Initialized, s_Start, s_End, s_Current,
                   s_extentHooks, prot, returned, aborted>>

\* ------------------------------------------------------------ extentAlloc
\* The size and alignment extentAlloc works with: the requested ones, widened
\* to representable values under __CHERI_PURE_CAPABILITY__.
EffectiveSize(size) ==
    IF capMode THEN cheri_representable_length(size) ELSE size

EffectiveAlignment_MaskOnly(size, alignment) ==
    IF capMode
    THEN Neg(cheri_representable_alignment_mask(size))
    ELSE alignment

EffectiveAlignment(size, alignment) ==
    IF capMode
    THEN Neg(BitAnd(Neg(alignment), cheri_representable_alignment_mask(size)))
    ELSE alignment

Rejected_SizeOnly(new_addr, size) == size = 0

\* if (new_addr != NULL || size == 0) ret = NULL
Rejected(new_addr, size) == new_addr # NULL \/ size = 0

NewCursor_NoSize(start, size) == start

\* s_Current = start + size
NewCursor(start, size) == (start + size) % Mod

\* The ASSERTs between the early reject and the align-up.
AllocAsserts(size, alignment) ==
    /\ hasOneBitSet(alignment)
    /\ capMode =>
         /\ hasZeroOrOneBitsSet((BitNot(cheri_representable_alignment_mask(size)) + 1) % Mod)
         /\ cheri_representable_length(size) >= size
         /\ hasOneBitSet(EffectiveAlignment(size, alignment))

\* From the early reject to the isAvailableRange test.
AllocCheck(t) ==
    /\ ~aborted
    /\ pc[t] = "body"
    /\ call[t].op = "alloc"
    /\ IF Rejected(call[t].addr, call[t].size)
       THEN /\ loc' = [loc EXCEPT ![t].ret = NULL]
            /\ pc' = [pc EXCEPT ![t] = "unlock"]
            /\ UNCHANGED aborted
       ELSE IF ~AllocAsserts(call[t].size, call[t].alignment) \/ ~ValidRangeAsserts(t)
       THEN /\ aborted' = TRUE
            /\ UNCHANGED <<pc, loc>>
       ELSE LET size == EffectiveSize(call[t].size)
                alignment == EffectiveAlignment(call[t].size, call[t].alignment)
                start == AlignUp(s_Current, alignment)
            IN  /\ UNCHANGED aborted
                /\ IF isAvailableRange(start, size)
                   THEN /\ loc' = [loc EXCEPT ![t].start = start, ![t].size = size,
                                              ![t].alignment = alignment]
                        /\ pc' = [pc EXCEPT ![t] = "mmap"]
                   ELSE /\ loc' = [loc EXCEPT ![t].size = size,
                                              ![t].alignment = alignment,
                                              ![t].ret = NULL]
                        /\ pc' = [pc EXCEPT ![t] = "unlock"]
    /\ UNCHANGED <<initPc, capMode, s_Initialized, s_Mutex, s_Start, s_End,
                   s_Current, s_extentHooks, prot, call, returned, entry>>

\* An extentAlloc that sets *zero and *commit before it looks at what mmap returned.
AllocMap_FlagsFirst(t) ==
    /\ ~aborted
    /\ pc[t] = "mmap"
    /\ \E ok \in MmapOutcomes(loc[t].size) :
         IF ok
         THEN /\ prot' = Remap(loc[t].start, loc[t].size, "rw")
              /\ loc' = [loc EXCEPT ![t].ret = loc[t].start]
              /\ pc' = [pc EXCEPT ![t] = "advance"]
         ELSE /\ loc' = [loc EXCEPT ![t].ret = NULL, ![t].zero = TRUE, ![t].commit = TRUE]
              /\ pc' = [pc EXCEPT ![t] = "unlock"]
              /\ UNCHANGED prot
    /\ UNCHANGED <<initPc, capMode, s_Initialized, s_Mutex, s_Start, s_End,
                   s_Current, s_extentHooks, call, returned, entry, aborted>>

\* ret = mmap(start, size, PROT_READ | PROT_WRITE, MAP_ANON | MAP_PRIVATE | MAP_FIXED)
AllocMap(t) ==
    /\ ~aborted
    /\ pc[t] = "mmap"
    /\ \E ok \in MmapOutcomes(loc[t].size) :
         IF ok
         THEN /\ prot' = Remap(loc[t].start, loc[t].size, "rw")
              /\ loc' = [loc EXCEPT ![t].ret = loc[t].start]
              /\ pc' = [pc EXCEPT ![t] = "advance"]
         ELSE /\ loc' = [loc EXCEPT ![t].ret = NULL]
              /\ pc' = [pc EXCEPT ![t] = "unlock"]
              /\ UNCHANGED prot
    /\ UNCHANGED <<initPc, capMode, s_Initialized, s_Mutex, s_Start, s_End,
                   s_Current, s_extentHooks, call, returned, entry, aborted>>

\* *zero = true; *commit = true; s_Current = start + size
AllocAdvance(t) ==
    /\ ~aborted
    /\ pc[t] = "advance"
    /\ loc' = [loc EXCEPT ![t].zero = TRUE, ![t].commit = TRUE]
    /\ s_Current' = NewCursor(loc[t].start, loc[t].size)
    /\ returned' = Append(returned, <<loc[t].ret, loc[t].size>>)
    /\ pc' = [pc EXCEPT ![t] = "unlock"]
    /\ UNCHANGED <<initPc, capMode, s_Initialized, s_Mutex, s_Start, s_End,
                   s_extentHooks, prot, call, entry, aborted>>

\* ---------------------------------------------------------- extentDestroy
\* ASSERT(isAllocatedRange(addr, size));
\* ret = mmap(addr, size, PROT_NONE, MAP_GUARD | MAP_FIXED); ASSERT(ret == addr)
extentDestroy(t) ==
    /\ ~aborted
    /\ pc[t] = "body"
    /\ call[t].op = "destroy"
    /\ IF ~ValidRangeAsserts(t) \/ ~isAllocatedRange(call[t].addr, call[t].size)
       THEN /\ aborted' = TRUE
            /\ UNCHANGED <<prot, pc, loc>>
       ELSE \E ok \in MmapOutcomes(call[t].size) :
              IF ok
              THEN /\ prot' = Remap(call[t].addr, call[t].size, "guard")
                   /\ loc' = [loc EXCEPT ![t].ret = call[t].addr]
                   /\ pc' = [pc EXCEPT ![t] = "unlock"]
                   /\ UNCHANGED aborted
              ELSE /\ aborted' = TRUE
                   /\ UNCHANGED <<prot, pc, loc>>
    /\ UNCHANGED <<initPc, capMode, s_Initialized, s_Mutex, s_Start, s_End,
                   s_Current, s_extentHooks, call, returned, entry>>

\* ------------------------------------------------------ extentPurgeCommon
\* The ASSERTs without the one on the portion itself.
PurgeAsserts_ExtentOnly(addr, size, offset, length) ==
    /\ offset <= size
    /\ (offset + length) % Mod <= size
    /\ isAllocatedRange(addr, size)

\* The four ASSERTs that precede the mmap; size_t and pointer sums wrap.
PurgeAsserts(addr, size, offset, length) ==
    /\ offset <= size
    /\ (offset + length) % Mod <= size
    /\ isAllocatedRange(addr, size)
    /\ isAllocatedRange((addr + offset) % Mod, length)

\* ret = mmap(start, length, PROT_READ | PROT_WRITE, MAP_ANON | MAP_PRIVATE | MAP_FIXED);
\* ASSERT(ret == start); return false
extentPurgeCommon(t) ==
    /\ ~aborted
    /\ pc[t] = "body"
    /\ IF \/ ~ValidRangeAsserts(t)
          \/ ~PurgeAsserts(call[t].addr, call[t].size, call[t].offset, call[t].length)
       THEN /\ aborted' = TRUE
            /\ UNCHANGED <<prot, pc, loc>>
       ELSE LET start == (call[t].addr + call[t].offset) % Mod
            IN  \E ok \in MmapOutcomes(call[t].length) :
                  IF ok
                  THEN /\ prot' = Remap(start, call[t].length, "rw")
                       /\ loc' = [loc EXCEPT ![t].start = start, ![t].ret = 0]
                       /\ pc' = [pc EXCEPT ![t] = "unlock"]
                       /\ UNCHANGED aborted
                  ELSE /\ aborted' = TRUE
                       /\ UNCHANGED <<prot, pc, loc>>
    /\ UNCHANGED <<initPc, capMode, s_Initialized, s_Mutex, s_Start, s_End,
                   s_Current, s_extentHooks, call, returned, entry>>

\* A purge_lazy that only advises the kernel and leaves the mapping in place.
extentPurgeLazy_Deferred(t) ==
    /\ ~aborted
    /\ pc[t] = "body"
    /\ call[t].op = "purge_lazy"
    /\ loc' = [loc EXCEPT ![t].ret = 0]
    /\ pc' = [pc EXCEPT ![t] = "unlock"]
    /\ UNCHANGED <<initPc, capMode, s_Initialized, s_Mutex, s_Start, s_End,
                   s_Current, s_extentHooks, prot, call, returned, entry, aborted>>

\* For simplicity, just force all purges.
extentPurgeLazy(t) ==
    /\ call[t].op = "purge_lazy"
    /\ extentPurgeCommon(t)

extentPurgeForced(t) ==
    /\ call[t].op = "purge_forced"
    /\ extentPurgeCommon(t)

\* ----------------------------------------------------------- specification
Next ==
    \/ InitMutex
    \/ InitReserve
    \/ InitHooks
    \/ InitRegistered
    \/ InitializeAgain
    \/ \E t \in Threads :
         \/ Invoke(t)
         \/ LockAlloc(t)
         \/ LockDestroy(t)
         \/ LockPurgeLazy(t)
         \/ LockPurgeForced(t)
         \/ AllocCheck(t)
         \/ AllocMap(t)
         \/ AllocAdvance(t)
         \/ extentDestroy(t)
         \/ extentPurgeLazy(t)
         \/ extentPurgeForced(t)
         \/ Unlock(t)

Spec == Init /\ [][Next]_vars

\* MutexLocker's constructor returns in thread t, whichever hook it serves.
LockAny(t) ==
    LockAlloc(t) \/ LockDestroy(t) \/ LockPurgeLazy(t) \/ LockPurgeForced(t)

\* A step of thread t between taking the mutex and releasing it.
Run(t) ==
    \/ AllocCheck(t)
    \/ AllocMap(t)
    \/ AllocAdvance(t)
    \/ extentDestroy(t)
    \/ extentPurgeLazy(t)
    \/ extentPurgeForced(t)
    \/ Unlock(t)

\* The calls followed under fair scheduling: every exit path of every hook,
\* with the choice of alignment, flags and portion left out.
FairCall(c) ==
    \/ c.op = "none"
    \/ c.op = "alloc" /\ c.alignment = 1 /\ ~c.zero /\ c.size \in {0, 1, k_AreaSize}
    \/ c.op = "destroy"
    \/ c.op \in {"purge_lazy", "purge_forced"} /\ c.offset = 0 /\ c.length = c.size

\* MutexLocker's constructor returns in thread t for one of those calls.
FairLock(t) == LockAny(t) /\ FairCall(call'[t])

FairNext ==
    \/ InitMutex
    \/ InitReserve
    \/ InitHooks
    \/ InitRegistered
    \/ InitializeAgain
    \/ \E t \in Threads :
         \/ Invoke(t)
         \/ FairLock(t)
         \/ Run(t)

\* Fair scheduling: a thread that can run does run, and a thread blocked on
\* the mutex is not passed over for ever when the mutex keeps becoming free.
FairSpec ==
    /\ Init
    /\ [][FairNext]_vars
    /\ \A t \in Threads : SF_vars(FairLock(t)) /\ WF_vars(Run(t))

\* ================================================================ claims
IsAlloc(t) == call[t].op = "alloc"

\* Thread t is at extentAlloc's `return ret` with a non-null ret.
Succeeding(t) == pc[t] = "unlock" /\ IsAlloc(t) /\ loc[t].ret # NULL

Ranges == { returned[i] : i \in 1 .. Len(returned) }

\* The addresses ever handed out.
Handed == UNION { Range(r[1], r[2]) : r \in Ranges }

\* C1: every range a successful extentAlloc returns lies inside the reserved
\* window, base <= addr and addr + size <= end, and addr is a multiple of the
\* requested alignment.
C1_InsideWindowAligned ==
    /\ \A r \in Ranges : s_Start <= r[1] /\ r[1] + r[2] <= s_End
    /\ \A t \in Threads :
         Succeeding(t) =>
           /\ s_Start <= loc[t].ret
           /\ loc[t].ret + call[t].size <= s_End
           /\ loc[t].ret + loc[t].size <= s_End
           /\ loc[t].ret % call[t].alignment = 0

\* A successful extentAlloc that had to skip to an alignment of two pages or
\* more and whose range ends at the end of the window.
C1_Witness ==
    \E t \in Threads :
      /\ Succeeding(t)
      /\ call[t].alignment >= 2
      /\ loc[t].ret > entry[t].cur
      /\ loc[t].ret + loc[t].size = s_End

\* C2: no two successful extentAlloc calls return overlapping ranges, whatever
\* destroy and purge calls come between them.
C2_PairwiseDisjoint ==
    \A i, j \in 1 .. Len(returned) :
      i < j =>
        \/ returned[i][1] + returned[i][2] <= returned[j][1]
        \/ returned[j][1] + returned[j][2] <= returned[i][1]

\* Three ranges handed out, the first of them destroyed since.
C2_Witness ==
    /\ Len(returned) >= 3
    /\ \A a \in Range(returned[1][1], returned[1][2]) : prot[a] = "guard"

\* C3: the bump cursor never decreases, across every step of every
\* interleaving of the hooks.
C3_CursorMonotonic == [][s_Current' >= s_Current]_vars

\* The cursor has advanced twice and stands inside the window while a thread
\* runs a destroy or purge and another one is queued on the mutex.
C3_Witness ==
    /\ Len(returned) >= 2
    /\ s_Current < s_End
    /\ \E t, u \in Threads :
         /\ pc[t] = "unlock" /\ ~IsAlloc(t)
         /\ pc[u] = "wait"

\* C4: once the window is reserved, base <= current <= end in every state, so
\* the assertions at the head of isValidRange hold whenever a hook body runs.
C4_CursorInWindow ==
    /\ initPc \notin {"start", "mutex"} =>
         /\ s_Start # NULL
         /\ s_Start <= s_Current
         /\ s_Current <= s_End
    /\ \A t \in Threads : pc[t] \in {"body", "mmap", "advance"} => ValidRangeAsserts(t)

\* The cursor has reached the end of the window and a hook body is running.
C4_Witness ==
    /\ s_Start # NULL
    /\ s_Current = s_End
    /\ \E t \in Threads : pc[t] = "body"

\* C6: a range once returned by a successful extentAlloc satisfies
\* isAllocatedRange in every later state, also after a destroy or a purge of it.
C6_ReturnedStaysAllocated ==
    \A r \in Ranges : isAllocatedRange(r[1], r[2])

\* The last range handed out ends at the cursor and has been destroyed.
C6_Witness ==
    /\ Len(returned) >= 2
    /\ LET r == returned[Len(returned)]
       IN  /\ r[1] + r[2] = s_Current
           /\ \A a \in Range(r[1], r[2]) : prot[a] = "guard"

\* Two extentAlloc calls queued on the mutex together, served one right after
\* the other: first finished, second is at its `return ret`.  Both asked, with
\* no fixed address, for the same size and alignment; when first took the
\* mutex the cursor met that alignment and exactly that size was left.
Race(first, second) ==
    /\ first # second
    /\ entry[first].result \in {"ok", "map_failed", "no_space"}
    /\ second \in entry[first].peers
    /\ pc[second] = "unlock"
    /\ IsAlloc(second)
    /\ call[second].addr = NULL
    /\ call[second].size = entry[first].size
    /\ call[second].alignment = entry[first].alignment

\* The mapping call of one of the two racing calls failed.
RaceMapFailed(first, second) ==
    \/ entry[first].result = "map_failed"
    \/ loc[second].ret = NULL /\ loc[second].start # NULL

\* Capability mode widened the request beyond the space left.
RaceWidened(first) ==
    \/ EffectiveSize(entry[first].size) # entry[first].size
    \/ entry[first].cur % EffectiveAlignment(entry[first].size, entry[first].alignment) # 0

\* C5 as stated: of two such concurrent calls exactly one succeeds, returning
\* the old cursor and leaving the cursor at the end of the window.
C5_ExactlyOneSucceeds ==
    \A first, second \in Threads :
      Race(first, second) =>
        /\ (entry[first].result = "ok") # (loc[second].ret # NULL)
        /\ loc[second].ret # NULL => loc[second].ret = entry[first].cur
        /\ s_Current = s_End

\* C5 amended: the two calls never both succeed; a call that succeeds returns
\* the old cursor and leaves the cursor at the end of the window; and both
\* fail only when a mapping call failed or when capability mode widened the
\* request beyond the space left.
C5_AtMostOneSucceeds ==
    \A first, second \in Threads :
      Race(first, second) =>
        /\ ~(entry[first].result = "ok" /\ loc[second].ret # NULL)
        /\ entry[first].result = "ok" => s_Current = s_End
        /\ loc[second].ret # NULL =>
             /\ loc[second].ret = entry[first].cur
             /\ s_Current = s_End
        /\ (entry[first].result # "ok" /\ loc[second].ret = NULL) =>
             \/ RaceMapFailed(first, second)
             \/ capMode /\ RaceWidened(first)

\* The first of two racing calls took the last two pages; the second found the
\* window exhausted.
C5_Witness ==
    \E first, second \in Threads :
      /\ Race(first, second)
      /\ entry[first].result = "ok"
      /\ entry[first].size = 2
      /\ loc[second].ret = NULL
      /\ loc[second].start = NULL

\* Thread t leaves the extentAlloc steps that precede the mapping call.
ChecksOut(t) ==
    /\ pc[t] = "body"
    /\ IsAlloc(t)
    /\ pc'[t] # "body" \/ aborted'

\* C7: extentAlloc with a non-null new_addr returns NULL, whatever the size,
\* the alignment and the cursor, and leaves the cursor, the page states and
\* *zero / *commit as they were.
C7_FixedAddressRejected ==
    [][\A t \in Threads :
         (ChecksOut(t) /\ call[t].addr # NULL) =>
           /\ pc'[t] = "unlock"
           /\ loc'[t].ret = NULL
           /\ loc'[t].zero = call[t].zero
           /\ loc'[t].commit = call[t].commit
           /\ s_Current' = s_Current
           /\ prot' = prot
           /\ ~aborted']_vars

\* An extentAlloc asked for one page at the aligned cursor itself, with room
\* left, and is at its `return ret` with NULL.
C7_Witness ==
    \E t \in Threads :
      /\ pc[t] = "unlock"
      /\ IsAlloc(t)
      /\ call[t].addr # NULL
      /\ call[t].addr = AlignUp(s_Current, call[t].alignment)
      /\ call[t].size = 1
      /\ call[t].addr + 1 <= s_End
      /\ ~call[t].zero
      /\ loc[t].ret = NULL

\* The padded span of the request, computed without wrapping, does not fit
\* between the cursor and the end of the window.
SpanExceeds(t) ==
    RoundUp(s_Current, call[t].alignment) + call[t].size > s_End

\* C8 as stated: a request whose padded span exceeds end - current returns
\* failure and leaves the cursor unchanged.
C8_NoFitReturnsFailure ==
    [][\A t \in Threads :
         (ChecksOut(t) /\ SpanExceeds(t)) =>
           /\ pc'[t] = "unlock"
           /\ loc'[t].ret = NULL
           /\ s_Current' = s_Current]_vars

\* The size has no representable length: widening it wraps below the size.
Unrepresentable(size) == cheri_representable_length(size) < size

\* C8, what the code does: such a request never succeeds and never moves the
\* cursor; it returns failure, or in capability mode, for a size that has no
\* representable length, stops at ASSERT(repr_size >= size).
C8_NoFitNeverSucceeds ==
    [][\A t \in Threads :
         (ChecksOut(t) /\ SpanExceeds(t)) =>
           /\ s_Current' = s_Current
           /\ prot' = prot
           /\ \/ pc'[t] = "unlock" /\ loc'[t].ret = NULL /\ ~aborted'
              \/ /\ aborted'
                 /\ capMode
                 /\ call[t].addr = NULL
                 /\ Unrepresentable(call[t].size)]_vars

\* A request for two pages at an alignment that wraps the cursor around the
\* address space is at its `return ret` with NULL, the cursor where it was.
C8_Witness ==
    \E t \in Threads :
      /\ pc[t] = "unlock"
      /\ IsAlloc(t)
      /\ call[t].addr = NULL
      /\ call[t].size = 2
      /\ RoundUp(s_Current, call[t].alignment) >= Mod
      /\ s_Current < s_End
      /\ s_Current = entry[t].cur
      /\ loc[t].ret = NULL

\* C9: outside capability mode a successful extentAlloc returns the cursor
\* aligned up to the requested alignment and sets the cursor to that address
\* plus the size; an address the cursor has skipped is never handed out later.
C9_BumpAllocation ==
    [][/\ \A t \in Threads :
            (pc[t] = "advance" /\ pc'[t] = "unlock" /\ ~capMode) =>
              /\ loc'[t].ret % call[t].alignment = 0
              /\ loc'[t].ret >= s_Current
              /\ loc'[t].ret - s_Current < call[t].alignment
              /\ s_Current' = loc'[t].ret + call[t].size
              /\ returned' = Append(returned, <<loc'[t].ret, call[t].size>>)
       /\ \A x \in Addr :
            (s_Start # NULL /\ s_Start <= x /\ x < s_Current /\ x \in Handed') => x \in Handed
      ]_vars

\* With the window at B: one page at alignment 1 came from B, one page at
\* alignment 2 from B + 2, and the next page from B + 3, not from the gap.
C9_Witness ==
    /\ ~capMode
    /\ returned = << <<s_Start, 1>>, <<s_Start + 2, 1>>, <<s_Start + 3, 1>> >>
    /\ s_Current = s_Start + 4

\* Thread t runs the body of extentDestroy on a range inside [base, current).
DestroysAllocated(t) ==
    /\ pc[t] = "body"
    /\ call[t].op = "destroy"
    /\ pc'[t] # "body" \/ aborted'
    /\ s_Start <= call[t].addr
    /\ call[t].addr + call[t].size <= s_Current

\* Exactly [addr, addr + size) has become guard; no other page changed.
OnlyRangeGuarded(t) ==
    \A a \in Addr :
      prot'[a] = IF call[t].addr <= a /\ a < call[t].addr + call[t].size
                 THEN "guard" ELSE prot[a]

\* C10 as stated: extentDestroy on a range inside [base, current) completes
\* normally, keeps cursor, base and end, and turns exactly [addr, addr + size)
\* into guard pages.
C10_DestroyCompletes ==
    [][\A t \in Threads :
         DestroysAllocated(t) =>
           /\ pc'[t] = "unlock"
           /\ ~aborted'
           /\ UNCHANGED <<s_Current, s_Start, s_End>>
           /\ OnlyRangeGuarded(t)]_vars

\* C10 amended: extentDestroy on a range inside [base, current) keeps cursor,
\* base and end; it either completes normally, having turned exactly
\* [addr, addr + size) into guard pages, or, when the remapping call fails, as
\* it does for an empty range, stops at ASSERT(ret == addr) with every page as
\* it was.
C10_DestroyFrame ==
    [][\A t \in Threads :
         DestroysAllocated(t) =>
           /\ UNCHANGED <<s_Current, s_Start, s_End>>
           /\ \/ /\ pc'[t] = "unlock"
                 /\ ~aborted'
                 /\ call[t].size > 0
                 /\ OnlyRangeGuarded(t)
              \/ /\ aborted'
                 /\ prot' = prot
           /\ call[t].size = 0 => aborted']_vars

\* extentDestroy is at its return after guarding a produced extent that has a
\* mapped page right after it.
C10_Witness ==
    \E t \in Threads :
      /\ pc[t] = "unlock"
      /\ call[t].op = "destroy"
      /\ call[t].size >= 1
      /\ call[t].addr + call[t].size < s_Current
      /\ \A a \in Range(call[t].addr, call[t].size) : prot[a] = "guard"
      /\ prot[call[t].addr + call[t].size] = "rw"

\* Thread t runs the body of a purge hook whose arguments meet the
\* preconditions: offset + length within size, the extent inside [base, current).
PurgesAllocated(t) ==
    /\ pc[t] = "body"
    /\ call[t].op \in {"purge_lazy", "purge_forced"}
    /\ pc'[t] # "body" \/ aborted'
    /\ call[t].offset + call[t].length <= call[t].size
    /\ s_Start <= call[t].addr
    /\ call[t].addr + call[t].size <= s_Current

\* Exactly [addr + offset, addr + offset + length) has become read/write; no
\* other page changed.
OnlyPortionMapped(t) ==
    \A a \in Addr :
      prot'[a] = IF /\ call[t].addr + call[t].offset <= a
                    /\ a < call[t].addr + call[t].offset + call[t].length
                 THEN "rw" ELSE prot[a]

\* C11 as stated: either purge hook, given arguments that meet the
\* preconditions, remaps exactly the portion as read/write, leaves the cursor
\* unchanged and returns false; nothing in the outcome depends on which of the
\* two hooks ran.
C11_PurgeAlwaysReturns ==
    [][\A t \in Threads :
         PurgesAllocated(t) =>
           /\ pc'[t] = "unlock"
           /\ ~aborted'
           /\ loc'[t].ret = 0
           /\ UNCHANGED <<s_Current, s_Start, s_End, returned>>
           /\ OnlyPortionMapped(t)]_vars

\* C11 amended: either purge hook, given arguments that meet the
\* preconditions, leaves the cursor unchanged and never returns true; when the
\* remapping call succeeds it remaps exactly the portion as read/write and
\* returns false; when the remapping call fails, as it does for an empty
\* portion, it stops at ASSERT(ret == start) with every page as it was.
\* Nothing in the outcome depends on which of the two hooks ran.
C11_PurgeIdentical ==
    [][\A t \in Threads :
         PurgesAllocated(t) =>
           /\ UNCHANGED <<s_Current, s_Start, s_End, returned>>
           /\ \/ /\ pc'[t] = "unlock"
                 /\ ~aborted'
                 /\ loc'[t].ret = 0
                 /\ call[t].length > 0
                 /\ OnlyPortionMapped(t)
              \/ /\ aborted'
                 /\ prot' = prot
                 /\ pc'[t] = "body"
           /\ call[t].length = 0 => aborted']_vars

\* extentPurgeLazy has returned false after remapping the second page of a
\* two-page extent that had been destroyed; the first page is still guard.
C11_Witness ==
    \E t \in Threads :
      /\ pc[t] = "unlock"
      /\ call[t].op = "purge_lazy"
      /\ call[t].size = 2
      /\ call[t].offset = 1
      /\ call[t].length = 1
      /\ loc[t].ret = 0
      /\ prot[call[t].addr] = "guard"
      /\ prot[call[t].addr + 1] = "rw"

\* [addr, addr + size), taken without wrapping, is not inside [base, current).
NotAllocated(addr, size) == addr < s_Start \/ addr + size > s_Current

\* Thread t runs the body of extentDestroy or of a purge hook with arguments
\* that break a precondition.
BreaksPrecondition(t) ==
    /\ pc[t] = "body"
    /\ pc'[t] # "body" \/ aborted'
    /\ \/ /\ call[t].op = "destroy"
          /\ NotAllocated(call[t].addr, call[t].size)
       \/ /\ call[t].op \in {"purge_lazy", "purge_forced"}
          /\ \/ call[t].offset + call[t].length > call[t].size
             \/ NotAllocated(call[t].addr, call[t].size)
             \/ NotAllocated(call[t].addr + call[t].offset, call[t].length)

\* C12: extentDestroy on a range not inside [base, current), and a purge hook
\* with offset + length > size or with an extent or portion not inside
\* [base, current), stop at a failed ASSERT: they do not return, and no page
\* has been remapped.
C12_PreconditionAsserts ==
    [][\A t \in Threads :
         BreaksPrecondition(t) =>
           /\ aborted'
           /\ pc'[t] = "body"
           /\ prot' = prot
           /\ UNCHANGED <<s_Current, s_Start, s_End, returned>>]_vars

\* A purge whose offset + length wraps round to no more than the size, on a
\* produced extent, has stopped at an ASSERT.
C12_Witness ==
    /\ aborted
    /\ \E t \in Threads :
         /\ pc[t] = "body"
         /\ call[t].op = "purge_forced"
         /\ <<call[t].addr, call[t].size>> \in Produced
         /\ call[t].offset = 1
         /\ call[t].length = Mod - 1

\* Every size_t value
AnySize == 0 .. (Mod - 1)

\* [addr, addr + size) shares a byte with the returned range r.
Overlaps(addr, size, r) == addr < r[1] + r[2] /\ r[1] < addr + size

\* Once a range has been returned by a successful extentAlloc, neither it nor
\* any range that overlaps it is available.
ReturnedNotAvailable ==
    \A r \in Ranges : \A addr \in Addr, size \in AnySize :
      Overlaps(addr, size, r) => ~isAvailableRange(addr, size)

\* The window is reserved and no hook holds the mutex.  The window, the cursor
\* and the returned ranges change only while the mutex is held, so every
\* combination of them that a hook can see occurs in such a state.
Settled == s_Start # NULL /\ s_Mutex.owner = NoThread

\* C13 as stated: isAvailableRange(addr, size) is true iff addr >= current,
\* and it is false for every range that overlaps a range already returned.
C13_AvailableIffBeyondCursor ==
    Settled =>
      /\ \A addr \in Addr, size \in AnySize :
           isAvailableRange(addr, size) <=> addr >= s_Current
      /\ ReturnedNotAvailable

\* C13 amended: isAvailableRange(addr, size) is true iff addr >= current and
\* [addr, addr + size) ends, without wrapping, at or before the end of the
\* window; and it is false for every range that overlaps a range already
\* returned.
C13_AvailableIffInRest ==
    Settled =>
      /\ \A addr \in Addr, size \in AnySize :
           isAvailableRange(addr, size) <=> (addr >= s_Current /\ addr + size <= s_End)
      /\ ReturnedNotAvailable

\* The first range returned was available when the cursor stood at the base
\* and is not any more; the rest of the window is available, one page more
\* than the rest is not.
C13_Witness ==
    /\ Len(returned) >= 1
    /\ returned[1][1] = s_Start
    /\ ~isAvailableRange(returned[1][1], returned[1][2])
    /\ s_Current < s_End
    /\ isAvailableRange(s_Current, s_End - s_Current)
    /\ ~isAvailableRange(s_Current, s_End - s_Current + 1)

\* Thread t's extentAlloc found that the candidate range fits, called mmap,
\* and mmap returned MAP_FAILED.
MapFails(t) ==
    /\ pc[t] = "mmap"
    /\ pc'[t] # "mmap"
    /\ pc'[t] # "advance"

\* C14: when the candidate range fits but the mapping call fails, extentAlloc
\* returns NULL and leaves the cursor, the pages and *zero / *commit as they
\* were; the candidate range is still available, so a later extentAlloc can be
\* served from the same cursor.
C14_MapFailureKeepsCursor ==
    [][\A t \in Threads :
         MapFails(t) =>
           /\ pc'[t] = "unlock"
           /\ ~aborted'
           /\ loc'[t].ret = NULL
           /\ loc'[t].zero = call[t].zero
           /\ loc'[t].commit = call[t].commit
           /\ UNCHANGED <<s_Current, s_Start, s_End, prot, returned>>
           /\ loc[t].start >= s_Current'
           /\ loc[t].start + loc[t].size <= s_End']_vars

\* The mapping call of one extentAlloc failed; the next extentAlloc, with the
\* same request, was served from the cursor the first one had found.
C14_Witness ==
    \E first, second \in Threads :
      /\ Race(first, second)
      /\ entry[first].result = "map_failed"
      /\ ~call[second].zero
      /\ loc[second].zero
      /\ loc[second].ret = entry[first].cur

\* Positions between the return of MutexLocker's constructor and the return
\* of the hook.
Inside == {"body", "mmap", "advance", "unlock"}

\* At most one thread is inside a hook and that thread owns the mutex.
OneInside ==
    \A t, u \in Threads :
      pc[t] \in Inside =>
        /\ s_Mutex.owner = t
        /\ pc[u] \in Inside => u = t

\* A step that moves a thread inside a hook, writes the cursor or remaps a
\* page once the hook table is bound is a step of the thread that owns the
\* mutex, and no other thread moves inside a hook in that step.
StepsByOwner ==
    \A t \in Threads :
      (\/ pc'[t] # pc[t] /\ pc[t] \in Inside
       \/ (s_Current' # s_Current \/ prot' # prot) /\ s_Mutex.owner = t) =>
        /\ s_extentHooks # {}
        /\ s_Mutex.owner = t
        /\ pc[t] \in Inside
        /\ \A u \in Threads \ {t} : pc'[u] = pc[u] /\ pc[u] \notin Inside

\* C15: at most one hook invocation is between taking the mutex and its
\* return; the cursor is written and pages are remapped by hooks only under
\* the mutex, and the steps of one hook are never interleaved with steps of
\* another one.
C15_MutualExclusion ==
    /\ []OneInside
    /\ [][/\ StepsByOwner
          /\ (s_extentHooks # {} /\ (s_Current' # s_Current \/ prot' # prot)) =>
               s_Mutex.owner # NoThread]_vars

\* One extentAlloc has mapped its range and not yet advanced the cursor while
\* another invocation is blocked on the mutex.
C15_Witness ==
    \E t, u \in Threads :
      /\ t # u
      /\ pc[t] = "advance"
      /\ s_Mutex.owner = t
      /\ pc[u] = "wait"
      /\ Len(returned) >= 1

\* The mutex is owned only by a thread that is inside a hook.
HeldOnlyInside ==
    \A t \in Threads : s_Mutex.owner = t => pc[t] \in Inside

\* A hook that returns has released the mutex, whichever path it took.
ReturnReleases ==
    \A t \in Threads :
      (pc[t] \in Inside /\ pc'[t] = "idle") =>
        /\ s_Mutex.owner = t
        /\ s_Mutex'.owner = NoThread

Stage(p) ==
    CASE p = "start" -> 0
      [] p = "mutex" -> 1
      [] p = "reserved" -> 2
      [] p = "hooks" -> 3
      [] p = "mallctl" -> 4
      [] p = "done" -> 5

\* Once the hook table is bound the mutex exists and the window is set, with
\* the cursor inside it; a hook that runs finds them so.
EstablishedBeforeHooks ==
    /\ s_extentHooks # {} =>
         /\ s_Mutex.created
         /\ s_Start # NULL
         /\ s_End = s_Start + k_AreaSize
         /\ s_Start <= s_Current
         /\ s_Current <= s_End
    /\ \A t \in Threads : pc[t] # "idle" => s_extentHooks # {}
    /\ s_Initialized => initPc = "done"

\* C17: initialize() creates the mutex and sets base, end and cursor = base
\* before it hands over the hook table, so a hook invoked during registration,
\* with s_Initialized still false, finds the window and the mutex established;
\* s_Initialized becomes true only when registration has succeeded; and
\* initialize() runs at most once: a second call stops at its first ASSERT.
C17_InitOrder ==
    /\ []EstablishedBeforeHooks
    /\ [][/\ Stage(initPc') >= Stage(initPc)
          /\ (s_extentHooks' # s_extentHooks) =>
               /\ s_extentHooks = {}
               /\ s_Mutex.created
               /\ s_Start # NULL
               /\ s_Current = s_Start
               /\ s_End = s_Start + k_AreaSize
               /\ ~s_Initialized
          /\ (s_Initialized' # s_Initialized) =>
               /\ s_Initialized'
               /\ initPc = "mallctl"
               /\ initPc' = "done"
               /\ ~aborted'
          /\ s_Mutex.created => s_Mutex'.created
          /\ s_Start # NULL => UNCHANGED <<s_Start, s_End>>
         ]_vars

\* extentAlloc, called during arenas.create with s_Initialized still false,
\* has mapped the first pages of the window.
C17_Witness ==
    /\ initPc = "mallctl"
    /\ ~s_Initialized
    /\ pc[MainThread] = "advance"
    /\ loc[MainThread].ret = s_Start
    /\ s_Mutex.owner = MainThread

\* The larger of two numbers
Max(a, b) == IF a >= b THEN a ELSE b

\* The size and alignment thread t's extentAlloc works with are not below the
\* requested ones, and the alignment is the larger of the requested one and
\* the one the representable bounds need, hence a power of two.
WidenedNotBelow(t) ==
    /\ loc[t].size >= call[t].size
    /\ loc[t].alignment >= call[t].alignment
    /\ \E k \in 0 .. (AddrBits - 1) : loc[t].alignment = 2 ^ k
    /\ pc[t] \in {"mmap", "advance"} =>
         /\ loc[t].size = cheri_representable_length(call[t].size)
         /\ loc[t].alignment =
              Max(call[t].alignment,
                  Mod - cheri_representable_alignment_mask(call[t].size))
         /\ loc[t].start % loc[t].alignment = 0

\* C18: in capability mode the size and the alignment extentAlloc works with
\* are never smaller than the requested ones, the alignment stays a power of
\* two, the cursor advances by the widened size, and the returned address is
\* a multiple of the requested alignment.
C18_WidenedNotSmaller ==
    /\ [](\A t \in Threads : (capMode /\ IsAlloc(t)) => WidenedNotBelow(t))
    /\ [][\A t \in Threads :
            (capMode /\ pc[t] = "advance" /\ pc'[t] = "unlock") =>
              /\ loc'[t].ret = loc[t].start
              /\ loc'[t].ret % call[t].alignment = 0
              /\ s_Current' = loc'[t].ret + loc[t].size
              /\ s_Current' - s_Current >= call[t].size]_vars

\* A request for three pages at alignment 2 was widened to four pages at
\* alignment 4; it has succeeded and the cursor stands four pages further.
C18_Witness ==
    \E t \in Threads :
      /\ capMode
      /\ pc[t] = "unlock"
      /\ IsAlloc(t)
      /\ call[t].size = 3
      /\ call[t].alignment = 2
      /\ loc[t].size = 4
      /\ loc[t].alignment = 4
      /\ loc[t].ret # NULL
      /\ s_Current = loc[t].ret + 4

\* extentDestroy holds the mutex and stands before its range check.
Checking ==
    /\ s_Start # NULL
    /\ \E t \in Threads : s_Mutex.owner = t /\ pc[t] = "body" /\ call[t].op = "destroy"

\* C19: isValidRange(addr, size) is true iff addr + size does not wrap and
\* base <= addr <= end and base <= addr + size <= end, both ends inclusive; it
\* is false whenever addr + size wraps, also for an addr inside the window.
C19_ValidIffInWindow ==
    Checking =>
      \A addr \in Addr, size \in AnySize :
        /\ isValidRange(addr, size) <=>
             /\ addr + size < Mod
             /\ s_Start <= addr /\ addr <= s_End
             /\ s_Start <= addr + size /\ addr + size <= s_End
        /\ addr + size >= Mod => ~isValidRange(addr, size)

\* extentDestroy is about to check its range; the empty range at the end of the
\* window and the whole window are valid, a range from inside the window whose
\* end wraps to the base is not.
C19_Witness ==
    /\ Checking
    /\ s_Current > s_Start
    /\ isValidRange(s_End, 0)
    /\ isValidRange(s_Start, k_AreaSize)
    /\ (s_End + (Mod - k_AreaSize)) % Mod = s_Start
    /\ ~isValidRange(s_End, Mod - k_AreaSize)

\* With the mutex free, every address from the cursor to the end of the
\* window is in the guard state the reservation gave it.
RestIsGuard ==
    (s_Start # NULL /\ s_Mutex.owner = NoThread) =>
      \A a \in Addr : (s_Current <= a /\ a < s_End) => prot[a] = "guard"

\* A page gets backing only from the hook that owns the mutex: from a purge,
\* below the cursor, or from extentAlloc's mmap, inside the candidate range
\* the cursor is then moved past.
BackingOnlyBelowCursor ==
    /\ \A a \in Addr :
         (prot'[a] = "rw" /\ prot[a] # "rw") =>
           \E t \in Threads :
             /\ s_Mutex.owner = t
             /\ \/ /\ call[t].op \in {"purge_lazy", "purge_forced"}
                   /\ a < s_Current
                \/ /\ call[t].op = "alloc"
                   /\ pc[t] = "mmap"
                   /\ s_Current <= loc[t].start
                   /\ loc[t].start <= a
                   /\ a < loc[t].start + loc[t].size
    /\ \A t \in Threads :
         (pc[t] = "advance" /\ pc'[t] = "unlock") =>
           \A a \in Addr : (a >= s_Current' /\ a < s_End) => prot'[a] = "guard"

\* C20: whenever the mutex is free every address in [current, end) is still
\* a guard page; no hook attaches backing at or beyond the cursor, except
\* extentAlloc to the range it then moves the cursor past.
C20_RestStaysGuard ==
    /\ []RestIsGuard
    /\ [][BackingOnlyBelowCursor]_vars

\* The mutex is free, the cursor stands inside the window, and below it lie a
\* mapped page and a page of a returned range that was destroyed.
C20_Witness ==
    /\ s_Mutex.owner = NoThread
    /\ s_Start < s_Current
    /\ s_Current < s_End
    /\ Len(returned) >= 2
    /\ prot[returned[1][1]] = "guard"
    /\ \E a \in Addr : a < s_Current /\ prot[a] = "rw"
    /\ prot[s_Current] = "guard"

====
